---- MODULE Spec2Model ----
(***************************************************************************)
(* Model of crossterm_serde: the text codecs for a crossterm KeyEvent.     *)
(*                                                                         *)
(* A text (Rust str / String) is a sequence of Unicode scalar values,      *)
(* written as their code points.  str::len is the UTF-8 byte length, so it *)
(* is computed from the code points, not taken to be the number of chars.  *)
(* A KeyCode is a record [tag, arg]; arg is the char of Char(c), the       *)
(* number of F(n), and 0 for the variants without a payload.               *)
(* A Result is [ok |-> TRUE, value |-> v] or [ok |-> FALSE, error |-> e].  *)
(***************************************************************************)
EXTENDS Integers, Sequences, FiniteSets, TLC

VARIABLES pc, op, input, output, calls, origin

vars == <<pc, op, input, output, calls, origin>>

\* ------------------------------------------------------------------ bounds
\* longest text handed to the key-code decoder
MaxTextLen == 3
\* longest chain of `|` building a KeyModifiers value
MaxFlags == 4
\* most '+'-separated tokens in a text handed to the modifier decoder
MaxTokens == 3

\* --------------------------------------------------------------- Rust std
Ok(v) == [ok |-> TRUE, value |-> v]
Err(e) == [ok |-> FALSE, error |-> e]

\* char::is_whitespace: the White_Space code points
is_whitespace(c) ==
    \/ c \in 9..13
    \/ c \in {32, 133, 160, 5760, 8232, 8233, 8239, 8287, 12288}
    \/ c \in 8192..8202

\* char::len_utf8
len_utf8(c) ==
    IF c < 128 THEN 1 ELSE IF c < 2048 THEN 2 ELSE IF c < 65536 THEN 3 ELSE 4

\* str::len: the length in bytes
RECURSIVE str_len(_)
str_len(text) ==
    IF text = <<>> THEN 0 ELSE len_utf8(Head(text)) + str_len(Tail(text))

\* str::is_empty
is_empty(text) == str_len(text) = 0

RECURSIVE trim_start(_)
trim_start(text) ==
    IF text # <<>> /\ is_whitespace(Head(text)) THEN trim_start(Tail(text)) ELSE text

RECURSIVE trim_end(_)
trim_end(text) ==
    IF text # <<>> /\ is_whitespace(text[Len(text)])
    THEN trim_end(SubSeq(text, 1, Len(text) - 1))
    ELSE text

\* str::trim
trim(text) == trim_end(trim_start(text))

\* str::split with a one-char separator: the pieces between the separators
RECURSIVE split(_, _)
split(text, sep) ==
    IF \E i \in 1..Len(text) : text[i] = sep
    THEN LET i == CHOOSE j \in 1..Len(text) :
                      text[j] = sep /\ \A k \in 1..(j - 1) : text[k] # sep
         IN  <<SubSeq(text, 1, i - 1)>> \o split(SubSeq(text, i + 1, Len(text)), sep)
    ELSE <<text>>

\* [&str]::join
RECURSIVE join(_, _)
join(seq, sep) ==
    IF seq = <<>> THEN <<>>
    ELSE IF Len(seq) = 1 THEN seq[1]
    ELSE seq[1] \o sep \o join(Tail(seq), sep)

\* HashMap::from / from_iter over a sequence of (key, value) pairs: a later
\* pair with the same key replaces an earlier one
HashMapFrom(entries) ==
    [k \in {entries[i][1] : i \in DOMAIN entries} |->
        LET last == CHOOSE i \in DOMAIN entries :
                        entries[i][1] = k /\ \A j \in DOMAIN entries :
                                                entries[j][1] = k => j <= i
        IN  entries[last][2]]

\* ------------------------------------------------------- mod serde_key_code
KeyCode(tag, arg) == [tag |-> tag, arg |-> arg]
Char(c) == KeyCode("Char", c)
Named(tag) == KeyCode(tag, 0)

KEYWORDS_BackTabIsTab ==
    HashMapFrom(<<
       <<<<66, 97, 99, 107, 115, 112, 97, 99, 101>>, Named("Backspace")>>,
       <<<<69, 110, 116, 101, 114>>, Named("Enter")>>,
       <<<<76, 101, 102, 116>>, Named("Left")>>,
       <<<<82, 105, 103, 104, 116>>, Named("Right")>>,
       <<<<85, 112>>, Named("Up")>>,
       <<<<68, 111, 119, 110>>, Named("Down")>>,
       <<<<72, 111, 109, 101>>, Named("Home")>>,
       <<<<69, 110, 100>>, Named("End")>>,
       <<<<80, 97, 103, 101, 85, 112>>, Named("PageUp")>>,
       <<<<80, 97, 103, 101, 68, 111, 119, 110>>, Named("PageDown")>>,
       <<<<84, 97, 98>>, Named("Tab")>>,
       <<<<66, 97, 99, 107, 84, 97, 98>>, Named("Tab")>>,
       <<<<68, 101, 108, 101, 116, 101>>, Named("Delete")>>,
       <<<<73, 110, 115, 101, 114, 116>>, Named("Insert")>>,
       <<<<78, 117, 108, 108>>, Named("Null")>>,
       <<<<69, 115, 99>>, Named("Esc")>>,
       <<<<67, 97, 112, 115, 76, 111, 99, 107>>, Named("CapsLock")>>,
       <<<<83, 99, 114, 111, 108, 108, 76, 111, 99, 107>>, Named("ScrollLock")>>,
       <<<<78, 117, 109, 76, 111, 99, 107>>, Named("NumLock")>>,
       <<<<80, 114, 105, 110, 116, 83, 99, 114, 101, 101, 110>>, Named("PrintScreen")>>,
       <<<<80, 97, 117, 115, 101>>, Named("Pause")>>,
       <<<<77, 101, 110, 117>>, Named("Menu")>>,
       <<<<75, 101, 121, 112, 97, 100, 66, 101, 103, 105, 110>>, Named("KeypadBegin")>>
    >>)

KEYWORDS ==
    HashMapFrom(<<
       <<<<66, 97, 99, 107, 115, 112, 97, 99, 101>>, Named("Backspace")>>,     \* "Backspace"
       <<<<69, 110, 116, 101, 114>>, Named("Enter")>>,                         \* "Enter"
       <<<<76, 101, 102, 116>>, Named("Left")>>,                               \* "Left"
       <<<<82, 105, 103, 104, 116>>, Named("Right")>>,                         \* "Right"
       <<<<85, 112>>, Named("Up")>>,                                           \* "Up"
       <<<<68, 111, 119, 110>>, Named("Down")>>,                               \* "Down"
       <<<<72, 111, 109, 101>>, Named("Home")>>,                               \* "Home"
       <<<<69, 110, 100>>, Named("End")>>,                                     \* "End"
       <<<<80, 97, 103, 101, 85, 112>>, Named("PageUp")>>,                     \* "PageUp"
       <<<<80, 97, 103, 101, 68, 111, 119, 110>>, Named("PageDown")>>,         \* "PageDown"
       <<<<84, 97, 98>>, Named("Tab")>>,                                       \* "Tab"
       <<<<66, 97, 99, 107, 84, 97, 98>>, Named("BackTab")>>,                  \* "BackTab"
       <<<<68, 101, 108, 101, 116, 101>>, Named("Delete")>>,                   \* "Delete"
       <<<<73, 110, 115, 101, 114, 116>>, Named("Insert")>>,                   \* "Insert"
       <<<<78, 117, 108, 108>>, Named("Null")>>,                               \* "Null"
       <<<<69, 115, 99>>, Named("Esc")>>,                                      \* "Esc"
       <<<<67, 97, 112, 115, 76, 111, 99, 107>>, Named("CapsLock")>>,          \* "CapsLock"
       <<<<83, 99, 114, 111, 108, 108, 76, 111, 99, 107>>, Named("ScrollLock")>>, \* "ScrollLock"
       <<<<78, 117, 109, 76, 111, 99, 107>>, Named("NumLock")>>,               \* "NumLock"
       <<<<80, 114, 105, 110, 116, 83, 99, 114, 101, 101, 110>>, Named("PrintScreen")>>, \* "PrintScreen"
       <<<<80, 97, 117, 115, 101>>, Named("Pause")>>,                          \* "Pause"
       <<<<77, 101, 110, 117>>, Named("Menu")>>,                               \* "Menu"
       <<<<75, 101, 121, 112, 97, 100, 66, 101, 103, 105, 110>>, Named("KeypadBegin")>> \* "KeypadBegin"
    >>)

\* KEYWORDS with every (name, key) pair swapped; were two names to share a
\* key, the name kept would depend on the map's iteration order
KEYWORDS_REV ==
    [code \in {KEYWORDS[name] : name \in DOMAIN KEYWORDS} |->
        CHOOSE name \in DOMAIN KEYWORDS : KEYWORDS[name] = code]

\* "One char must be provided or a valie keyword for a key like (Up)"
SER_ERROR_MESSAGE ==
    <<79, 110, 101, 32, 99, 104, 97, 114, 32, 109, 117, 115, 116, 32, 98, 101, 32,
      112, 114, 111, 118, 105, 100, 101, 100, 32, 111, 114, 32, 97, 32, 118, 97,
      108, 105, 101, 32, 107, 101, 121, 119, 111, 114, 100, 32, 102, 111, 114, 32,
      97, 32, 107, 101, 121, 32, 108, 105, 107, 101, 32, 40, 85, 112, 41>>

\* "One char or a certain keyword must be provided"
ERROR_MESSAGE ==
    <<79, 110, 101, 32, 99, 104, 97, 114, 32, 111, 114, 32, 97, 32, 99, 101, 114,
      116, 97, 105, 110, 32, 107, 101, 121, 119, 111, 114, 100, 32, 109, 117, 115,
      116, 32, 98, 101, 32, 112, 114, 111, 118, 105, 100, 101, 100>>

\* char.to_string(): the one-char text
to_string(c) == <<c>>

key_code_to_text_UnknownIsEmpty(code) ==
    IF code.tag = "Char" THEN Ok(to_string(code.arg))
    ELSE IF code \in DOMAIN KEYWORDS_REV THEN Ok(KEYWORDS_REV[code])
    ELSE Ok(<<>>)

key_code_to_text(code) ==
    IF code.tag = "Char" THEN Ok(to_string(code.arg))
    ELSE IF code \in DOMAIN KEYWORDS_REV THEN Ok(KEYWORDS_REV[code])
    ELSE Err(SER_ERROR_MESSAGE)

\* serialize: the text goes to the serializer as one string
serde_key_code_serialize(code) == key_code_to_text(code)

parse_key_code_FirstCharFallback(text) ==
    IF is_empty(text) THEN Err(ERROR_MESSAGE)
    ELSE IF str_len(text) = 1 THEN Ok(Char(Head(text)))
    ELSE IF text \in DOMAIN KEYWORDS THEN Ok(KEYWORDS[text])
    ELSE Ok(Char(Head(text)))

parse_key_code(text) ==
    IF is_empty(text) THEN Err(ERROR_MESSAGE)
    ELSE IF str_len(text) = 1 THEN Ok(Char(Head(text)))
    ELSE IF text \in DOMAIN KEYWORDS THEN Ok(KEYWORDS[text])
    ELSE Err(ERROR_MESSAGE)

\* deserialize: the string is trimmed, then parsed
serde_key_code_deserialize(s) == parse_key_code(trim(s))


\* --------------------------------------------------- mod serde_key_modifier
\* "+"
SEPERATOR == <<43>>
NONE == <<78, 79, 78, 69>>
SHIFT == <<83, 72, 73, 70, 84>>
CONTROL == <<67, 79, 78, 84, 82, 79, 76>>
SUPER == <<83, 85, 80, 69, 82>>
ALT == <<65, 76, 84>>
HYPER == <<72, 89, 80, 69, 82>>
META == <<77, 69, 84, 65>>

\* KeyModifiers: a set of flags held in the bits of a u8
KeyModifiers_NONE == 0
KeyModifiers_SHIFT == 1
KeyModifiers_CONTROL == 2
KeyModifiers_ALT == 4
KeyModifiers_SUPER == 8
KeyModifiers_HYPER == 16
KeyModifiers_META == 32

\* KeyModifiers::$e for the identifier $e
KeyModifiersOf(e) ==
    CASE e = "NONE" -> KeyModifiers_NONE
      [] e = "SHIFT" -> KeyModifiers_SHIFT
      [] e = "CONTROL" -> KeyModifiers_CONTROL
      [] e = "ALT" -> KeyModifiers_ALT
      [] e = "SUPER" -> KeyModifiers_SUPER
      [] e = "HYPER" -> KeyModifiers_HYPER
      [] e = "META" -> KeyModifiers_META

\* stringify!($e): the identifier as text
stringify(e) ==
    CASE e = "NONE" -> <<78, 79, 78, 69>>
      [] e = "SHIFT" -> <<83, 72, 73, 70, 84>>
      [] e = "CONTROL" -> <<67, 79, 78, 84, 82, 79, 76>>
      [] e = "ALT" -> <<65, 76, 84>>
      [] e = "SUPER" -> <<83, 85, 80, 69, 82>>
      [] e = "HYPER" -> <<72, 89, 80, 69, 82>>
      [] e = "META" -> <<77, 69, 84, 65>>

RECURSIVE BitOp(_, _, _, _)
BitOp(a, b, w, xor) ==
    IF w = 0 THEN 0
    ELSE (IF xor THEN (IF (a % 2) # (b % 2) THEN 1 ELSE 0)
                 ELSE (IF a % 2 = 1 \/ b % 2 = 1 THEN 1 ELSE 0))
         + 2 * BitOp(a \div 2, b \div 2, w - 1, xor)

BitOr_Xor(a, b) == BitOp(a, b, 8, TRUE)

\* KeyModifiers | KeyModifiers, on the 8 bits of the u8
BitOr(a, b) == BitOp(a, b, 8, FALSE)

RECURSIVE BitAnd(_, _, _)
BitAnd(a, b, w) ==
    IF w = 0 THEN 0
    ELSE (IF a % 2 = 1 /\ b % 2 = 1 THEN 1 ELSE 0)
         + 2 * BitAnd(a \div 2, b \div 2, w - 1)

\* KeyModifiers::contains: every bit of `other` is set
contains(m, other) == BitAnd(m, other, 8) = other

\* KeyModifiers::is_empty: no bit is set
modifiers_is_empty(m) == m = 0

KEYWORD ==
    HashMapFrom(<<
        <<SHIFT, KeyModifiers_SHIFT>>,
        <<CONTROL, KeyModifiers_CONTROL>>,
        <<ALT, KeyModifiers_ALT>>,
        <<SUPER, KeyModifiers_SUPER>>,
        <<HYPER, KeyModifiers_HYPER>>,
        <<META, KeyModifiers_META>>,
        <<NONE, KeyModifiers_NONE>>
    >>)

push_if_contains(m, v, e) ==
    IF contains(m, KeyModifiersOf(e)) THEN Append(v, stringify(e)) ELSE v

bits_to_strs_ControlFirst(modif) ==
    LET v1 == push_if_contains(modif, <<>>, "CONTROL")
        v2 == push_if_contains(modif, v1, "ALT")
        v3 == push_if_contains(modif, v2, "SHIFT")
        v4 == push_if_contains(modif, v3, "SUPER")
        v5 == push_if_contains(modif, v4, "HYPER")
    IN  IF modifiers_is_empty(modif) THEN Append(v5, NONE) ELSE v5

bits_to_strs(modif) ==
    LET v1 == push_if_contains(modif, <<>>, "ALT")
        v2 == push_if_contains(modif, v1, "CONTROL")
        v3 == push_if_contains(modif, v2, "SHIFT")
        v4 == push_if_contains(modif, v3, "SUPER")
        v5 == push_if_contains(modif, v4, "HYPER")
    IN  IF modifiers_is_empty(modif) THEN Append(v5, NONE) ELSE v5

\* serialize: the joined list goes to the serializer as one string; it
\* cannot fail
serde_key_modifier_serialize(modifier) == Ok(join(bits_to_strs(modifier), SEPERATOR))

\* "Need to provide at least keyword for the key modifier"
NEED_KEYWORD_MESSAGE ==
    <<78, 101, 101, 100, 32, 116, 111, 32, 112, 114, 111, 118, 105, 100, 101, 32,
      97, 116, 32, 108, 101, 97, 115, 116, 32, 107, 101, 121, 119, 111, 114, 100,
      32, 102, 111, 114, 32, 116, 104, 101, 32, 107, 101, 121, 32, 109, 111, 100,
      105, 102, 105, 101, 114>>

\* format!("{} is not a valid keyword", next)
not_a_valid_keyword(next) ==
    next \o <<32, 105, 115, 32, 110, 111, 116, 32, 97, 32, 118, 97, 108, 105, 100,
              32, 107, 101, 121, 119, 111, 114, 100>>

RECURSIVE parse_tokens_SkipUnknown(_, _)
parse_tokens_SkipUnknown(tokens, result) ==
    IF tokens = <<>> THEN Ok(result)
    ELSE IF Head(tokens) \notin DOMAIN KEYWORD
         THEN parse_tokens_SkipUnknown(Tail(tokens), result)
         ELSE parse_tokens_SkipUnknown(Tail(tokens), BitOr(result, KEYWORD[Head(tokens)]))

\* the loop over the tokens: the first unknown token ends it with an error
RECURSIVE parse_tokens(_, _)
parse_tokens(tokens, result) ==
    IF tokens = <<>> THEN Ok(result)
    ELSE IF Head(tokens) \notin DOMAIN KEYWORD
         THEN Err(not_a_valid_keyword(Head(tokens)))
         ELSE parse_tokens(Tail(tokens), BitOr(result, KEYWORD[Head(tokens)]))

parse_key_modifier(text) ==
    LET trimmed == trim(text)
    IN  IF is_empty(trimmed) THEN Err(NEED_KEYWORD_MESSAGE)
        ELSE parse_tokens(split(trimmed, SEPERATOR[1]), KeyModifiers_NONE)

serde_key_modifier_deserialize(text) == parse_key_modifier(text)

\* ------------------------------------------------- SerDeConfigKeyEvent
KeyEventKind_Press == "Press"
KeyEventKind_Repeat == "Repeat"
KeyEventKind_Release == "Release"

\* KeyEventState: bits of a u8
KeyEventState_NONE == 0
KeyEventState_KEYPAD == 1

KeyEvent(code, modifiers, kind, state) ==
    [code |-> code, modifiers |-> modifiers, kind |-> kind, state |-> state]

default_modifiers == KeyModifiers_NONE

default_event_kind_Release == KeyEventKind_Release

default_event_kind == KeyEventKind_Press

default_event_state == KeyEventState_NONE

Some(v) == [some |-> TRUE, value |-> v]
None == [some |-> FALSE]

\* "missing field `code`"
MISSING_FIELD_CODE ==
    <<109, 105, 115, 115, 105, 110, 103, 32, 102, 105, 101, 108, 100, 32, 96, 99,
      111, 100, 101, 96>>

\* the derived Serialize: the fields not skipped, in the order declared, each
\* through its `with` module; the first error ends it.  The result carries
\* the codec functions that were called.
SerDeConfigKeyEvent_serialize(event) ==
    LET code == serde_key_code_serialize(event.code)
        modifiers == serde_key_modifier_serialize(event.modifiers)
    IN  IF ~code.ok
        THEN [result |-> Err(code.error), calls |-> <<"serde_key_code::serialize">>]
        ELSE [result |-> IF modifiers.ok
                         THEN Ok(<< <<"code", code.value>>,
                                    <<"modifiers", modifiers.value>> >>)
                         ELSE Err(modifiers.error),
              calls |-> <<"serde_key_code::serialize",
                          "serde_key_modifier::serialize">>]

\* the derived Deserialize: the entries of the record in the order they are
\* read, each through its `with` module; a skipped or unknown field is passed
\* over; after the last entry a field that was not read takes its default,
\* and `code`, which has none, is an error
RECURSIVE visit_map(_, _, _, _)
visit_map(entries, code, modifiers, called) ==
    IF entries = <<>>
    THEN [result |-> IF ~code.some THEN Err(MISSING_FIELD_CODE)
                     ELSE Ok(KeyEvent(code.value,
                                      IF modifiers.some THEN modifiers.value
                                                        ELSE default_modifiers,
                                      default_event_kind,
                                      default_event_state)),
          calls |-> called]
    ELSE LET key == Head(entries)[1]
             value == Head(entries)[2]
         IN  IF key = "code"
             THEN LET r == serde_key_code_deserialize(value)
                      c == Append(called, "serde_key_code::deserialize")
                  IN  IF r.ok THEN visit_map(Tail(entries), Some(r.value), modifiers, c)
                      ELSE [result |-> Err(r.error), calls |-> c]
             ELSE IF key = "modifiers"
             THEN LET r == serde_key_modifier_deserialize(value)
                      c == Append(called, "serde_key_modifier::deserialize")
                  IN  IF r.ok THEN visit_map(Tail(entries), code, Some(r.value), c)
                      ELSE [result |-> Err(r.error), calls |-> c]
             ELSE visit_map(Tail(entries), code, modifiers, called)

SerDeConfigKeyEvent_deserialize(record) == visit_map(record, None, None, <<>>)

\* ------------------------------------------------------------------ inputs
\* 'U', 'p', 'a', ' ', U+00E9, U+20AC, U+3000 (a whitespace char)
Alphabet == {85, 112, 97, 32, 233, 8364, 12288}

RECURSIVE SeqsUpTo(_, _)
SeqsUpTo(S, n) ==
    IF n = 0 THEN {<<>>}
    ELSE LET shorter == SeqsUpTo(S, n - 1)
         IN  shorter \cup {Append(s, x) : s \in shorter, x \in S}

\* the characters of Char(c): the alphabet, and 'A', '/', '+', tab, U+1F600
Chars == Alphabet \cup {65, 47, 43, 9, 128512}

\* keys the name table does not list: F(1), Media(Play), Modifier(LeftShift)
UnlistedKeyCodes == {KeyCode("F", 1), Named("Media"), Named("Modifier")}

\* the KeyCode variants without a payload that the name table lists
ListedKeyCodes ==
    {Named(t) : t \in {"Backspace", "Enter", "Left", "Right", "Up", "Down", "Home",
                       "End", "PageUp", "PageDown", "Tab", "BackTab", "Delete",
                       "Insert", "Null", "Esc", "CapsLock", "ScrollLock", "NumLock",
                       "PrintScreen", "Pause", "Menu", "KeypadBegin"}}

KeyCodes == {Char(c) : c \in Chars} \cup ListedKeyCodes \cup UnlistedKeyCodes

\* texts for the key-code decoder: short texts over the alphabet, the names,
\* and " Up ", "UP", "up", "ab", "A", "/"
KeyCodeTexts ==
    SeqsUpTo(Alphabet, MaxTextLen) \cup DOMAIN KEYWORDS
        \cup {<<32, 85, 112, 32>>, <<85, 80>>, <<117, 112>>, <<97, 98>>, <<65>>, <<47>>}

FlagNames == {"NONE", "SHIFT", "CONTROL", "ALT", "SUPER", "HYPER", "META"}

\* a chain KeyModifiers::A | KeyModifiers::B | ...; the empty chain is
\* KeyModifiers::empty()
RECURSIVE or_all(_)
or_all(built) ==
    IF built = <<>> THEN KeyModifiers_NONE
    ELSE BitOr(or_all(SubSeq(built, 1, Len(built) - 1)),
               KeyModifiersOf(built[Len(built)]))

ModifierValues ==
    {[built |-> b, bits |-> or_all(b)] : b \in SeqsUpTo(FlagNames, MaxFlags)}

\* tokens for the modifier decoder: the seven keywords, "AL", "Z" and ""
Vocabulary == DOMAIN KEYWORD \cup {<<65, 76>>, <<90>>, <<>>}

\* a space or nothing on either side of the joined tokens
Paddings == {<<>>, <<32>>}

ModifierTexts ==
    {l \o join(tokens, SEPERATOR) \o r :
        tokens \in SeqsUpTo(Vocabulary, MaxTokens) \ {<<>>},
        l \in Paddings, r \in Paddings}

\* events: 'a', U+00E9, Up, Down and F(1), under a few modifier sets
EventCodes == {Char(97), Char(233), Named("Up"), Named("Down"), KeyCode("F", 1)}

EventModifiers ==
    {or_all(b) : b \in {<<>>, <<"ALT">>, <<"ALT", "CONTROL">>, <<"NONE", "SUPER">>,
                        <<"META">>, <<"SHIFT", "META">>}}

KeyEvents ==
    {KeyEvent(c, m, k, st) :
        c \in EventCodes, m \in EventModifiers,
        k \in {KeyEventKind_Press, KeyEventKind_Repeat, KeyEventKind_Release},
        st \in {KeyEventState_NONE, KeyEventState_KEYPAD}}

\* entries of a record: code "Up", "a" or "ab"; modifiers "NONE",
\* "ALT+CONTROL" or "ALT+Z"; and a field the struct skips, kind "Release"
RecordEntries ==
    {<<"code", v>> : v \in {<<85, 112>>, <<97>>, <<97, 98>>}}
        \cup {<<"modifiers", v>> : v \in {NONE, ALT \o SEPERATOR \o CONTROL,
                                          ALT \o SEPERATOR \o <<90>>}}
        \cup {<<"kind", <<82, 101, 108, 101, 97, 115, 101>> >>}

\* records: every field at most once, in any order
Records ==
    {r \in SeqsUpTo(RecordEntries, 3) :
        \A i, j \in DOMAIN r : r[i][1] = r[j][1] => i = j}

NotFed == [fed |-> FALSE]
Fed(v) == [fed |-> TRUE, value |-> v]
NoOutput == [ok |-> FALSE, error |-> <<>>]

\* ------------------------------------------------------------------ machine
InitKeyCodeSer ==
    /\ op = "serde_key_code::serialize"
    /\ input \in KeyCodes

InitKeyCodeDe ==
    /\ op = "serde_key_code::deserialize"
    /\ input \in KeyCodeTexts

InitModifierSer ==
    /\ op = "serde_key_modifier::serialize"
    /\ input \in ModifierValues

InitModifierDe ==
    /\ op = "serde_key_modifier::deserialize"
    /\ input \in ModifierTexts

InitEventSer ==
    /\ op = "SerDeConfigKeyEvent::serialize"
    /\ input \in KeyEvents

InitEventDe ==
    /\ op = "SerDeConfigKeyEvent::deserialize"
    /\ input \in Records

Init ==
    /\ pc = "call"
    /\ output = NoOutput
    /\ calls = <<>>
    /\ origin = NotFed
    /\ \/ InitKeyCodeSer
       \/ InitKeyCodeDe
       \/ InitModifierSer
       \/ InitModifierDe
       \/ InitEventSer
       \/ InitEventDe

SerializeKeyCode ==
    /\ pc = "call"
    /\ op = "serde_key_code::serialize"
    /\ output' = serde_key_code_serialize(input)
    /\ calls' = <<op>>
    /\ pc' = "done"
    /\ UNCHANGED <<op, input, origin>>

DeserializeKeyCode ==
    /\ pc = "call"
    /\ op = "serde_key_code::deserialize"
    /\ output' = serde_key_code_deserialize(input)
    /\ calls' = <<op>>
    /\ pc' = "done"
    /\ UNCHANGED <<op, input, origin>>

\* the text a serializer wrote is read back by the matching deserializer
FeedKeyCode ==
    /\ pc = "done"
    /\ op = "serde_key_code::serialize"
    /\ output.ok
    /\ origin' = Fed(input)
    /\ input' = output.value
    /\ op' = "serde_key_code::deserialize"
    /\ output' = NoOutput
    /\ calls' = <<>>
    /\ pc' = "call"

SerializeModifier ==
    /\ pc = "call"
    /\ op = "serde_key_modifier::serialize"
    /\ output' = serde_key_modifier_serialize(input.bits)
    /\ calls' = <<op>>
    /\ pc' = "done"
    /\ UNCHANGED <<op, input, origin>>

DeserializeModifier ==
    /\ pc = "call"
    /\ op = "serde_key_modifier::deserialize"
    /\ output' = serde_key_modifier_deserialize(input)
    /\ calls' = <<op>>
    /\ pc' = "done"
    /\ UNCHANGED <<op, input, origin>>

FeedModifier ==
    /\ pc = "done"
    /\ op = "serde_key_modifier::serialize"
    /\ output.ok
    /\ origin' = Fed(input.bits)
    /\ input' = output.value
    /\ op' = "serde_key_modifier::deserialize"
    /\ output' = NoOutput
    /\ calls' = <<>>
    /\ pc' = "call"

SerializeEvent ==
    /\ pc = "call"
    /\ op = "SerDeConfigKeyEvent::serialize"
    /\ output' = SerDeConfigKeyEvent_serialize(input).result
    /\ calls' = SerDeConfigKeyEvent_serialize(input).calls
    /\ pc' = "done"
    /\ UNCHANGED <<op, input, origin>>

DeserializeEvent ==
    /\ pc = "call"
    /\ op = "SerDeConfigKeyEvent::deserialize"
    /\ output' = SerDeConfigKeyEvent_deserialize(input).result
    /\ calls' = SerDeConfigKeyEvent_deserialize(input).calls
    /\ pc' = "done"
    /\ UNCHANGED <<op, input, origin>>

FeedEvent ==
    /\ pc = "done"
    /\ op = "SerDeConfigKeyEvent::serialize"
    /\ output.ok
    /\ origin' = Fed(input)
    /\ input' = output.value
    /\ op' = "SerDeConfigKeyEvent::deserialize"
    /\ output' = NoOutput
    /\ calls' = <<>>
    /\ pc' = "call"

Next ==
    \/ SerializeKeyCode
    \/ DeserializeKeyCode
    \/ FeedKeyCode
    \/ SerializeModifier
    \/ DeserializeModifier
    \/ FeedModifier
    \/ SerializeEvent
    \/ DeserializeEvent
    \/ FeedEvent

Spec == Init /\ [][Next]_vars

\* ------------------------------------------------------------------ claims
KeyCodeSerialized == pc = "done" /\ op = "serde_key_code::serialize"
KeyCodeDeserialized == pc = "done" /\ op = "serde_key_code::deserialize"
ModifierSerialized == pc = "done" /\ op = "serde_key_modifier::serialize"
ModifierDeserialized == pc = "done" /\ op = "serde_key_modifier::deserialize"
EventSerialized == pc = "done" /\ op = "SerDeConfigKeyEvent::serialize"
EventDeserialized == pc = "done" /\ op = "SerDeConfigKeyEvent::deserialize"

\* the six flags, and the flags a KeyModifiers value holds, read bit by bit
Flags == FlagNames \ {"NONE"}
FlagsOf(bits) == {f \in Flags : (bits \div KeyModifiersOf(f)) % 2 = 1}

\* C1: every set of the six modifier flags, serialized to text and read back,
\* is decoded successfully to the same set.
C1_ModifierRoundTrip ==
    (ModifierDeserialized /\ origin.fed) => output = Ok(origin.value)

\* C2: every Char(c), serialized to text and read back (trim, then
\* parse_key_code), is decoded successfully to Char(c), whatever the
\* character c: non-ASCII and whitespace characters too.
C2_CharRoundTrip ==
    (KeyCodeDeserialized /\ origin.fed /\ origin.value.tag = "Char")
        => output = Ok(origin.value)

\* C3: every key the name table lists is serialized to the name the table
\* gives it and that name is decoded back to the key; the table has 23 names,
\* no two names share a key, and the reversed table is its inverse.
C3_NamedKeyRoundTrip ==
    /\ (KeyCodeSerialized /\ input \in ListedKeyCodes)
           => /\ output.ok
              /\ output.value \in DOMAIN KEYWORDS
              /\ KEYWORDS[output.value] = input
    /\ (KeyCodeDeserialized /\ origin.fed /\ origin.value \in ListedKeyCodes)
           => output = Ok(origin.value)
    /\ Cardinality(DOMAIN KEYWORDS) = 23
    /\ {KEYWORDS[n] : n \in DOMAIN KEYWORDS} = ListedKeyCodes
    /\ \A n1, n2 \in DOMAIN KEYWORDS : KEYWORDS[n1] = KEYWORDS[n2] => n1 = n2
    /\ \A n \in DOMAIN KEYWORDS : KEYWORDS_REV[KEYWORDS[n]] = n
    /\ \A n \in DOMAIN KEYWORDS : Len(n) >= 2

C3_Witness ==
    /\ KeyCodeDeserialized
    /\ origin = Fed(Named("BackTab"))
    /\ input = <<66, 97, 99, 107, 84, 97, 98>>
    /\ output = Ok(Named("BackTab"))

FieldNames(record) == [i \in DOMAIN record |-> record[i][1]]

\* C4: a decoded key event always has kind Press and state NONE, whatever
\* the event that was encoded; a record without a modifiers field decodes to
\* the empty modifier set without the modifier decoder being called; and an
\* encoded record has exactly the fields code and modifiers.
C4_FixedKindAndState ==
    /\ (EventDeserialized /\ output.ok)
           => /\ output.value.kind = KeyEventKind_Press
              /\ output.value.state = KeyEventState_NONE
    /\ (EventDeserialized /\ \A i \in DOMAIN input : input[i][1] # "modifiers")
           => /\ \A i \in DOMAIN calls : calls[i] # "serde_key_modifier::deserialize"
              /\ output.ok => output.value.modifiers = KeyModifiers_NONE
    /\ (EventSerialized /\ output.ok)
           => FieldNames(output.value) = <<"code", "modifiers">>

C4_Witness ==
    /\ EventDeserialized
    /\ origin.fed
    /\ origin.value.kind = KeyEventKind_Release
    /\ origin.value.state = KeyEventState_KEYPAD
    /\ output.ok
    /\ output.value.kind = KeyEventKind_Press
    /\ output.value.state = KeyEventState_NONE

C4_WitnessNoModifiers ==
    /\ EventDeserialized
    /\ input = << <<"kind", <<82, 101, 108, 101, 97, 115, 101>> >>, <<"code", <<85, 112>> >> >>
    /\ output = Ok(KeyEvent(Named("Up"), KeyModifiers_NONE, KeyEventKind_Press,
                            KeyEventState_NONE))

\* the names of the flags of `flags` among ALT, CONTROL, SHIFT, SUPER, HYPER,
\* in that order, joined with '+'
CanonicalText(flags) ==
    LET Present(f) == f \in flags
        names == SelectSeq(<<"ALT", "CONTROL", "SHIFT", "SUPER", "HYPER">>, Present)
    IN  join([i \in DOMAIN names |-> stringify(names[i])], <<43>>)

\* C5: the text of a modifier set is the '+'-join of the names of its flags
\* in the order ALT, CONTROL, SHIFT, SUPER, HYPER, whatever the order the set
\* was built in; the text of the empty set is the single token NONE.
C5_CanonicalOrder ==
    ModifierSerialized =>
        LET flags == {input.built[i] : i \in DOMAIN input.built} \ {"NONE"}
        IN  /\ output.ok
            /\ flags # {} => output.value = CanonicalText(flags)
            /\ flags = {} => output.value = <<78, 79, 78, 69>>

C5_Witness ==
    /\ ModifierSerialized
    /\ input.built = <<"CONTROL", "ALT">>
    /\ output = Ok(<<65, 76, 84, 43, 67, 79, 78, 84, 82, 79, 76>>)

SevenKeywords == {stringify(f) : f \in FlagNames}

\* C6: a text of '+'-separated tokens, each one of the seven keywords, is
\* decoded successfully to the union of the flags its tokens name; order and
\* repetition of the tokens do not matter and NONE adds nothing.
C6_UnionOfTokens ==
    LET tokens == split(input, 43)
    IN  (ModifierDeserialized /\ \A i \in DOMAIN tokens : tokens[i] \in SevenKeywords)
            => /\ output.ok
               /\ output.value \in 0..63
               /\ FlagsOf(output.value)
                      = {f \in Flags : \E i \in DOMAIN tokens : tokens[i] = stringify(f)}

C6_Witness ==
    /\ ModifierDeserialized
    /\ input = <<65, 76, 84, 43, 78, 79, 78, 69, 43, 83, 85, 80, 69, 82>>
    /\ output = Ok(12)

IsPrefix(p, t) == Len(p) <= Len(t) /\ SubSeq(t, 1, Len(p)) = p

\* C7: modifier decoding fails, returning no modifier set, when the text is
\* empty after trimming or one of its '+'-separated tokens is not one of the
\* seven keywords; for an unknown token the message names the first one.
C7_RejectsUnknownToken ==
    LET tokens == split(trim(input), 43)
        bad == {i \in DOMAIN tokens : tokens[i] \notin SevenKeywords}
    IN  /\ (ModifierDeserialized /\ trim(input) = <<>>) => ~output.ok
        /\ (ModifierDeserialized /\ trim(input) # <<>> /\ bad # {})
               => LET first == CHOOSE i \in bad : \A j \in bad : i <= j
                  IN  /\ ~output.ok
                      /\ output.error = tokens[first]
                             \o <<32, 105, 115, 32, 110, 111, 116, 32, 97, 32, 118, 97,
                                  108, 105, 100, 32, 107, 101, 121, 119, 111, 114, 100>>

C7_Witness ==
    /\ ModifierDeserialized
    /\ input = <<65, 76, 84, 43, 90>>
    /\ ~output.ok
    /\ IsPrefix(<<90, 32>>, output.error)

\* C8: a text that is exactly one character x after trimming is decoded to
\* Char(x), whatever the byte length of x.
C8_OneCharIsChar ==
    (KeyCodeDeserialized /\ Len(trim(input)) = 1)
        => output = Ok(Char(trim(input)[1]))

\* C9: key-code decoding fails for a text that is empty after trimming, and
\* for a text of more than one character that is not exactly a name of the
\* table; both failures carry the same message.
C9_RejectsEmptyAndUnknown ==
    LET text == trim(input)
    IN  (KeyCodeDeserialized
            /\ (text = <<>> \/ (Len(text) > 1 /\ text \notin DOMAIN KEYWORDS)))
            => output = Err(ERROR_MESSAGE)

C9_Witness ==
    /\ KeyCodeDeserialized
    /\ input = <<117, 112>>
    /\ output = Err(ERROR_MESSAGE)

\* C10: key-code encoding fails exactly for a key that is not a Char and has
\* no entry in the name table, and then yields an error and no text; for a
\* Char and for a key of the table it yields a text.
C10_EncodingFailsOnlyUnlisted ==
    KeyCodeSerialized =>
        LET listed == input.tag = "Char" \/ input \in {KEYWORDS[n] : n \in DOMAIN KEYWORDS}
        IN  /\ listed => output.ok
            /\ ~listed => output = Err(SER_ERROR_MESSAGE)

C10_Witness ==
    /\ KeyCodeSerialized
    /\ input = KeyCode("F", 1)
    /\ output = Err(SER_ERROR_MESSAGE)

====
